---- MODULE Spec2Model ----
(***************************************************************************)
(* A model of src/src/neovim.ts: socket discovery in /tmp, the locator,    *)
(* and the three asynchronous public operations getNeovimInstanceDetails   *)
(* (snapshot), openFileInNeovim (navigate) and executeInNeovim (execute).  *)
(*                                                                         *)
(* Strings are sequences of tokens (single characters where the code looks *)
(* at characters, whole words otherwise); string concatenation is \o.      *)
(* An optional value is <<>> when undefined and <<v>> when it is v.        *)
(* An asynchronous function is a process whose actions each run from one   *)
(* await to the next: an action consumes the reply to the call the         *)
(* function is waiting for and runs the code up to the next await.         *)
(***************************************************************************)
EXTENDS Integers, Sequences, FiniteSets, TLC

VARIABLES
    fs,        \* the /tmp directory: [exists, readable, entries]
    editor,    \* the remote editor: [bufs, cur]
    conns,     \* every connection attach has returned, in order of creation
    pc,        \* per call: the await the call is suspended at
    req,       \* per call: the operation and its arguments
    loc,       \* per call: the local variables of the running function
    fibers,    \* per call: the per-buffer callbacks of Promise.all (snapshot)
    result,    \* per call: the value the operation returned, <<>> before
    escaped,   \* per call: TRUE when a failure left the operation unhandled
    hist       \* per call: what the environment did to the call (ground truth)

vars == <<fs, editor, conns, pc, req, loc, fibers, result, escaped, hist>>

(***************************************************************************)
(* Bounds                                                                  *)
(***************************************************************************)
MaxBufs == 2             \* buffer ids the remote editor can hold

\* the calls: call 1 runs alone in Spec, both run concurrently in SpecConc
Procs == {1, 2}
BufIds == 1..MaxBufs

None == <<>>
Some(x) == <<x>>

(***************************************************************************)
(* Strings                                                                 *)
(***************************************************************************)
Digits == {"0", "1", "2", "3", "4", "5", "6", "7", "8", "9"}

DigitVal(c) ==
    CASE c = "0" -> 0 [] c = "1" -> 1 [] c = "2" -> 2 [] c = "3" -> 3
      [] c = "4" -> 4 [] c = "5" -> 5 [] c = "6" -> 6 [] c = "7" -> 7
      [] c = "8" -> 8 [] c = "9" -> 9

NvimPrefix == <<"n", "v", "i", "m", "-">>
SockSuffix == <<".", "s", "o", "c", "k">>

\* s.startsWith(pre)
StartsWith(s, pre) ==
    /\ Len(s) >= Len(pre)
    /\ SubSeq(s, 1, Len(pre)) = pre

\* s.endsWith(suf)
EndsWith(s, suf) ==
    /\ Len(s) >= Len(suf)
    /\ SubSeq(s, Len(s) - Len(suf) + 1, Len(s)) = suf

\* the length of the run of digits of s that starts at position i
RECURSIVE DigitRun(_, _)
DigitRun(s, i) ==
    IF i <= Len(s) /\ s[i] \in Digits THEN 1 + DigitRun(s, i + 1) ELSE 0

\* parseInt(d, 10) of a non-empty string of digits
RECURSIVE ParseInt(_)
ParseInt(d) ==
    IF Len(d) = 0 THEN 0
    ELSE 10 * ParseInt(SubSeq(d, 1, Len(d) - 1)) + DigitVal(d[Len(d)])

\* /nvim-(\d+)\.sock/ matches s at position i (the pattern is not anchored)
PidMatchAt(s, i) ==
    LET n == DigitRun(s, i + Len(NvimPrefix))
        j == i + Len(NvimPrefix) + n
    IN  /\ i + Len(NvimPrefix) - 1 <= Len(s)
        /\ SubSeq(s, i, i + Len(NvimPrefix) - 1) = NvimPrefix
        /\ n >= 1
        /\ j + Len(SockSuffix) - 1 <= Len(s)
        /\ SubSeq(s, j, j + Len(SockSuffix) - 1) = SockSuffix

\* file.match(/nvim-(\d+)\.sock/): <<>> for null, else <<the digits of the
\* leftmost match>>
PidMatch(s) ==
    LET at == {i \in 1..Len(s) : PidMatchAt(s, i)}
    IN  IF at = {} THEN None
        ELSE LET i == CHOOSE k \in at : \A m \in at : k <= m
                 a == i + Len(NvimPrefix)
             IN  Some(SubSeq(s, a, a + DigitRun(s, a) - 1))

(***************************************************************************)
(* Socket discovery and the locator                                        *)
(***************************************************************************)
TmpDir == <<"/tmp">>

\* join(tmpDir, file)
Join(d, file) == d \o <<"/">> \o file

\* the body of the for loop of findNeovimSockets for one directory entry:
\* the instances it pushes
ScanEntry(e) ==
    IF StartsWith(e.name, NvimPrefix) /\ EndsWith(e.name, SockSuffix)
    THEN IF e.kind = "nostat" THEN <<>>            \* statSync throws: skipped
         ELSE IF e.kind = "socket"
              THEN LET m == PidMatch(e.name)
                   IN  IF m # None
                       THEN <<[socket |-> Join(TmpDir, e.name),
                               pid |-> ParseInt(m[1])]>>
                       ELSE <<>>
              ELSE <<>>
    ELSE <<>>

\* a scan whose only catch is the outer one: a failed status check ends it
RECURSIVE ScanEntriesAbort(_)
ScanEntriesAbort(es) ==
    IF es = <<>> THEN <<>>
    ELSE IF /\ StartsWith(Head(es).name, NvimPrefix)
            /\ EndsWith(Head(es).name, SockSuffix)
            /\ Head(es).kind = "nostat"
         THEN <<>>
         ELSE ScanEntry(Head(es)) \o ScanEntriesAbort(Tail(es))

RECURSIVE ScanEntries(_)
ScanEntries(es) ==
    IF es = <<>> THEN <<>>
    ELSE ScanEntry(Head(es)) \o ScanEntries(Tail(es))

\* findNeovimSockets() on the directory d
findNeovimSockets(d) ==
    IF ~d.exists THEN <<>>
    ELSE IF ~d.readable THEN <<>>                  \* readdirSync throws
    ELSE ScanEntries(d.entries)

\* a locator that forgets to compare the pid
getFirstInstance(d, pid) ==
    LET sockets == findNeovimSockets(d)
    IN  IF sockets = <<>> THEN None ELSE Some(sockets[1])

\* getNeovimInstance(pid): <<>> for null, else <<the first instance with pid>>
getNeovimInstance(d, pid) ==
    LET sockets == findNeovimSockets(d)
        hits == {i \in 1..Len(sockets) : sockets[i].pid = pid}
    IN  IF hits = {} THEN None
        ELSE Some(sockets[CHOOSE i \in hits : \A j \in hits : i <= j])

(***************************************************************************)
(* Values thrown by the transport.  tier is what really went wrong (the    *)
(* code cannot see it); isError is `e instanceof Error`.                   *)
(***************************************************************************)
Err(tier, text) == [tier |-> tier, isError |-> TRUE, message |-> text]
NonErr(tier) == [tier |-> tier, isError |-> FALSE, message |-> <<>>]

ConnectFailures == {Err("connect", <<"connect ECONNREFUSED">>), NonErr("connect")}
UseFailures ==
    {Err("transport", <<"socket closed">>),
     Err("domain", <<" ", "E486: Pattern not found", " ">>),
     NonErr("transport")}
CloseFailures == {Err("release", <<"close failed">>)}

\* error instanceof Error ? error.message : 'Unknown error'
ErrorMessage(e) == IF e.isError THEN e.message ELSE <<"Unknown error">>

\* s.trim(), on strings whose white space is the token " "
RECURSIVE TrimLeft(_)
TrimLeft(s) == IF s # <<>> /\ Head(s) = " " THEN TrimLeft(Tail(s)) ELSE s
RECURSIVE TrimRight(_)
TrimRight(s) ==
    IF s # <<>> /\ s[Len(s)] = " " THEN TrimRight(SubSeq(s, 1, Len(s) - 1)) ELSE s
Trim(s) == TrimRight(TrimLeft(s))

(***************************************************************************)
(* Requests: the arguments of one call of a public operation               *)
(***************************************************************************)
FilePath == <<"f.txt">>

SnapshotReq(pid) == [op |-> "snapshot", pid |-> pid]
NavigateReq(pid, line, column, endLine, endColumn) ==
    [op |-> "navigate", pid |-> pid, filePath |-> FilePath, line |-> line,
     column |-> column, endLine |-> endLine, endColumn |-> endColumn]
ExecuteReq(pid, command, isKeySequence) ==
    [op |-> "execute", pid |-> pid, command |-> command,
     isKeySequence |-> isKeySequence]

Pids == {1, 2}
Commands == {<<":", "w">>, <<"w">>, <<":", ":", "w">>}

FullReqs ==
    {SnapshotReq(pid) : pid \in Pids}
    \cup {NavigateReq(pid, l, c, el, ec) :
            pid \in Pids, l \in {None, Some(10)}, c \in {None, Some(0), Some(5)},
            el \in {None, Some(20)}, ec \in {None, Some(0), Some(7)}}
    \cup {ExecuteReq(pid, cmd, k) : pid \in Pids, cmd \in Commands, k \in BOOLEAN}

SmallReqs ==
    {SnapshotReq(pid) : pid \in Pids}
    \cup {NavigateReq(1, Some(10), None, Some(20), None)}
    \cup {ExecuteReq(1, <<":", "w">>, k) : k \in BOOLEAN}

(***************************************************************************)
(* Result values                                                           *)
(***************************************************************************)
ConnectErrorLabel == "Failed to connect to Neovim instance: "

\* the value returned when getNeovimInstance(pid) is null
NotFoundResult(r) ==
    CASE r.op = "snapshot" ->
           [instance |-> [socket |-> <<>>, pid |-> r.pid],
            error |-> <<"Neovim instance with PID ", ToString(r.pid), " not found">>]
      [] r.op = "navigate" ->
           [success |-> FALSE,
            message |-> <<"Neovim instance with PID ", ToString(r.pid), " not found">>,
            error |-> <<"PID ", ToString(r.pid), " not found">>]
      [] r.op = "execute" ->
           [success |-> FALSE,
            message |-> <<"Neovim instance with PID ", ToString(r.pid), " not found">>,
            command |-> r.command,
            error |-> <<"PID ", ToString(r.pid), " not found">>]

\* a failure value that keeps a field of the snapshot gathered so far
FailureResultPartial(r, instance, e) ==
    IF r.op = "snapshot"
    THEN [instance |-> instance, workingDirectory |-> <<"/home">>,
          error |-> <<"Failed to connect to Neovim instance: ">> \o e.message]
    ELSE [success |-> FALSE, message |-> <<"Failed">>,
          error |-> <<"Failed to connect to Neovim instance: ">> \o e.message]

\* the value the outer catch returns for the caught value e
FailureResult(r, instance, e) ==
    CASE r.op = "snapshot" ->
           [instance |-> instance,
            error |-> <<ConnectErrorLabel>> \o ErrorMessage(e)]
      [] r.op = "navigate" ->
           [success |-> FALSE,
            message |-> <<"Failed to open file in Neovim">>,
            file |-> r.filePath,
            error |-> <<ConnectErrorLabel>> \o ErrorMessage(e)]
      [] r.op = "execute" ->
           [success |-> FALSE,
            message |-> <<"Failed to execute command in Neovim">>,
            command |-> r.command,
            error |-> <<ConnectErrorLabel>> \o ErrorMessage(e)]

\* a success value that reports the output of execute as its error
SuccessResultWithError(r, l) ==
    IF r.op = "execute"
    THEN [success |-> TRUE, message |-> l.resultMessage, command |-> r.command,
          error |-> l.output]
    ELSE [success |-> TRUE, message |-> l.resultMessage]

\* the value returned after the close of the success path has succeeded
SuccessResult(r, l) ==
    CASE r.op = "snapshot" ->
           [instance |-> l.instance,
            workingDirectory |-> l.workingDirectory,
            currentFile |-> IF l.currentFile # <<>> THEN Some(l.currentFile) ELSE None,
            buffers |-> l.infos,
            cursorPosition |-> [line |-> l.pos[1], column |-> l.pos[2]]]
      [] r.op = "navigate" ->
           [success |-> TRUE, message |-> l.resultMessage, file |-> r.filePath,
            line |-> r.line, column |-> r.column]
      [] r.op = "execute" ->
           [success |-> TRUE, message |-> l.resultMessage, command |-> r.command,
            output |-> IF l.output # <<>> THEN Some(l.output) ELSE None]

\* how an operation ends: it returns a value or a failure escapes it
Return(v) == [kind |-> "return", value |-> v]
Throw(e) == [kind |-> "throw", value |-> e]

\* an outer catch that handles Error instances only
OuterCatchErrorsOnly(r, instance, e) ==
    IF e.isError
    THEN [kind |-> "return",
          value |-> [success |-> FALSE, message |-> <<"Failed">>, error |-> e.message]]
    ELSE [kind |-> "throw", value |-> e]

\* the outer try/catch of the three operations, given the value it catches
OuterCatch(r, instance, e) == Return(FailureResult(r, instance, e))

(***************************************************************************)
(* The environment: the directory and the remote editor                    *)
(***************************************************************************)
Entry(name, kind) == [name |-> name, kind |-> kind]
SockName(digits) == NvimPrefix \o digits \o SockSuffix

\* pid 1 is a live socket, pid 2 is a regular file with a socket's name
DirLive ==
    [exists |-> TRUE, readable |-> TRUE,
     entries |-> <<Entry(<<"f", "o", "o">>, "file"),
                   Entry(SockName(<<"1">>), "socket"),
                   Entry(SockName(<<"2">>), "file")>>]
DirMissing == [exists |-> FALSE, readable |-> FALSE, entries |-> <<>>]

InitDirs == {DirLive, DirMissing}

\* the editor always has a buffer, and its current buffer is one of them
Editors ==
    {e \in [bufs : SUBSET BufIds \ {{}}, cur : BufIds] : e.cur \in e.bufs}

\* the name and the loaded flag the remote editor reports for buffer b
BufName(b) == IF b = 1 THEN <<"/home/a.txt">> ELSE <<>>
BufLoaded(b) == b = 1

\* the replies of nvim.command that are not failures: undefined or a string
CommandResults == {None, Some(<<" ", "1 line written", " ">>), Some(<<" ">>)}

RECURSIVE SetToSeq(_)
SetToSeq(S) ==
    IF S = {} THEN <<>>
    ELSE LET m == CHOOSE x \in S : \A y \in S : x <= y
         IN  <<m>> \o SetToSeq(S \ {m})

(***************************************************************************)
(* Connections                                                             *)
(***************************************************************************)
Rq(method, args) == [method |-> method, args |-> args]

\* attach({ socket }) returned a new client
NewConn(socket) == [socket |-> socket, closes |-> 0, log |-> <<>>]

\* a remote call is issued on connection n
Issue(cs, n, rq) ==
    [cs EXCEPT ![n].log =
        Append(@, [method |-> rq.method, args |-> rq.args,
                   afterClose |-> cs[n].closes > 0])]

RECURSIVE IssueAll(_, _, _)
IssueAll(cs, n, rqs) ==
    IF rqs = <<>> THEN cs ELSE IssueAll(Issue(cs, n, Head(rqs)), n, Tail(rqs))

\* nvim.close() is invoked on connection n
CloseCall(cs, n) == [cs EXCEPT ![n].closes = @ + 1]

(***************************************************************************)
(* The state of one call                                                   *)
(***************************************************************************)
NoReq == [op |-> "none"]
NoLoc ==
    [instance |-> None, nvim |-> 0, workingDirectory |-> <<>>, currentBuffer |-> 0,
     currentFile |-> <<>>, pos |-> <<>>, allBuffers |-> <<>>, infos |-> <<>>,
     resultMessage |-> <<>>, output |-> <<>>, rpcError |-> None]
\* attach: what attach did; fail: the first failure of attach or of a remote
\* call; closeFailed: a close has failed
\* failAt: the await at which that first failure arrived
NoHist == [attach |-> "none", fail |-> None, failAt |-> "none", closeFailed |-> FALSE]
FirstFail(h, e, at) ==
    IF h.fail = None THEN [h EXCEPT !.fail = Some(e), !.failAt = at] ELSE h

\* no call has started
InitCalls ==
    /\ editor \in Editors
    /\ conns = <<>>
    /\ pc = [p \in Procs |-> "idle"]
    /\ req = [p \in Procs |-> NoReq]
    /\ loc = [p \in Procs |-> NoLoc]
    /\ fibers = [p \in Procs |-> <<>>]
    /\ result = [p \in Procs |-> None]
    /\ escaped = [p \in Procs |-> FALSE]
    /\ hist = [p \in Procs |-> NoHist]

Init ==
    /\ fs \in InitDirs
    /\ InitCalls

\* the operation ends with outcome o
Finish(p, o) ==
    /\ pc' = [pc EXCEPT ![p] = "done"]
    /\ result' = [result EXCEPT ![p] = IF o.kind = "return" THEN Some(o.value) ELSE None]
    /\ escaped' = [escaped EXCEPT ![p] = o.kind = "throw"]

\* the call goes on with locals l, issues rq and awaits it at next
Advance(p, l, next, rq) ==
    /\ loc' = [loc EXCEPT ![p] = l]
    /\ pc' = [pc EXCEPT ![p] = next]
    /\ conns' = Issue(conns, l.nvim, rq)
    /\ UNCHANGED <<fs, editor, req, fibers, result, escaped, hist>>

\* the call goes on with locals l to the close of the success path
AdvanceClose(p, l) ==
    /\ loc' = [loc EXCEPT ![p] = l]
    /\ pc' = [pc EXCEPT ![p] = "close"]
    /\ conns' = CloseCall(conns, l.nvim)
    /\ UNCHANGED <<fs, editor, req, fibers, result, escaped, hist>>

\* an inner catch that rethrows without closing
InnerCatchNoClose(p, e) ==
    /\ loc' = [loc EXCEPT ![p].rpcError = Some(e)]
    /\ pc' = [pc EXCEPT ![p] = "closeErr"]
    /\ conns' = conns

\* catch (rpcError): close the connection, then rethrow once close settles
InnerCatch(p, e) ==
    /\ loc' = [loc EXCEPT ![p].rpcError = Some(e)]
    /\ pc' = [pc EXCEPT ![p] = "closeErr"]
    /\ conns' = CloseCall(conns, loc[p].nvim)

(***************************************************************************)
(* Entry of the three operations: locate, then attach                      *)
(***************************************************************************)
\* lines 99-110, 234-246, 312-325: the call starts, locates the instance and,
\* when it is found, calls attach
Start(p, Reqs) ==
    /\ pc[p] = "idle"
    /\ \E r \in Reqs :
         LET instance == getNeovimInstance(fs, r.pid)
         IN  /\ req' = [req EXCEPT ![p] = r]
             /\ IF instance = None
                THEN /\ Finish(p, Return(NotFoundResult(r)))
                     /\ UNCHANGED loc
                ELSE /\ loc' = [loc EXCEPT ![p].instance = instance]
                     /\ pc' = [pc EXCEPT ![p] = "attach"]
                     /\ UNCHANGED <<result, escaped>>
    /\ UNCHANGED <<fs, editor, conns, fibers, hist>>

\* a cleaning that strips every leading colon
RECURSIVE CleanCommandAll(_)
CleanCommandAll(command) ==
    IF command # <<>> /\ Head(command) = ":"
    THEN CleanCommandAll(Tail(command)) ELSE command

\* execute: the string handed to nvim.command
CleanCommand(command) ==
    IF StartsWith(command, <<":">>) THEN Tail(command) ELSE command

\* the first remote call of an operation and the await it suspends at
FirstCall(r) ==
    CASE r.op = "snapshot" -> [pc |-> "getcwd", rq |-> Rq("getcwd", <<>>)]
      [] r.op = "navigate" ->
           [pc |-> "edit", rq |-> Rq("nvim_command", <<"edit ">> \o r.filePath)]
      [] r.op = "execute" ->
           IF r.isKeySequence
           THEN [pc |-> "input", rq |-> Rq("nvim_input", r.command)]
           ELSE [pc |-> "command", rq |-> Rq("nvim_command", CleanCommand(r.command))]

\* an attach that hands out the connection another call opened to the socket
AttachOkShared(p) ==
    /\ pc[p] = "attach"
    /\ LET socket == loc[p].instance[1].socket
           open == {k \in DOMAIN conns : conns[k].socket = socket}
           n == IF open = {} THEN Len(conns) + 1 ELSE CHOOSE k \in open : TRUE
           cs == IF open = {} THEN Append(conns, NewConn(socket)) ELSE conns
           first == FirstCall(req[p])
       IN  /\ conns' = Issue(cs, n, first.rq)
           /\ loc' = [loc EXCEPT ![p].nvim = n]
           /\ pc' = [pc EXCEPT ![p] = first.pc]
    /\ hist' = [hist EXCEPT ![p].attach = "ok"]
    /\ UNCHANGED <<fs, editor, req, fibers, result, escaped>>

\* attach succeeds: the inner try is entered and the first remote call issued
AttachOk(p) ==
    /\ pc[p] = "attach"
    /\ LET n == Len(conns) + 1
           first == FirstCall(req[p])
       IN  /\ conns' = Issue(Append(conns, NewConn(loc[p].instance[1].socket)), n, first.rq)
           /\ loc' = [loc EXCEPT ![p].nvim = n]
           /\ pc' = [pc EXCEPT ![p] = first.pc]
    /\ hist' = [hist EXCEPT ![p].attach = "ok"]
    /\ UNCHANGED <<fs, editor, req, fibers, result, escaped>>

\* an attach whose failure is swallowed, so that the session is entered
AttachFailEntered(p) ==
    /\ pc[p] = "attach"
    /\ \E e \in ConnectFailures :
         hist' = [hist EXCEPT ![p] = FirstFail([@ EXCEPT !.attach = "fail"], e, "attach")]
    /\ conns' = Append(conns, NewConn(loc[p].instance[1].socket))
    /\ loc' = [loc EXCEPT ![p].nvim = Len(conns) + 1]
    /\ pc' = [pc EXCEPT ![p] = "close"]
    /\ UNCHANGED <<fs, editor, req, fibers, result, escaped>>

\* attach throws: the outer catch returns
AttachFail(p) ==
    /\ pc[p] = "attach"
    /\ \E e \in ConnectFailures :
         /\ Finish(p, OuterCatch(req[p], loc[p].instance[1], e))
         /\ hist' = [hist EXCEPT ![p] = FirstFail([@ EXCEPT !.attach = "fail"], e, "attach")]
    /\ UNCHANGED <<fs, editor, conns, req, loc, fibers>>

(***************************************************************************)
(* The two closes and the way out                                          *)
(***************************************************************************)
\* the awaits at which a failure of the remote call reaches the inner catch
SeqAwaits ==
    {"getcwd", "buffer", "bufname", "getpos", "buffers",
     "edit", "checktime", "cursor", "inputv", "cursor2", "input"}

\* a failure handling that ignores a failed visual-mode input and goes on
RpcFailSwallowInput(p) ==
    /\ pc[p] \in SeqAwaits
    /\ \E e \in UseFailures :
         /\ hist' = [hist EXCEPT ![p] = FirstFail(@, e, pc[p])]
         /\ IF pc[p] = "inputv"
            THEN /\ pc' = [pc EXCEPT ![p] = "cursor2"]
                 /\ conns' = Issue(conns, loc[p].nvim, Rq("cursor", <<1, 1>>))
                 /\ loc' = loc
            ELSE InnerCatch(p, e)
    /\ UNCHANGED <<fs, editor, req, fibers, result, escaped>>

\* a remote call awaited in sequence fails
RpcFail(p) ==
    /\ pc[p] \in SeqAwaits
    /\ \E e \in UseFailures :
         /\ InnerCatch(p, e)
         /\ hist' = [hist EXCEPT ![p] = FirstFail(@, e, pc[p])]
    /\ UNCHANGED <<fs, editor, req, fibers, result, escaped>>

\* lines 139-150, 276-284, 365-372: the close of the success path succeeds
CloseOk(p) ==
    /\ pc[p] = "close"
    /\ Finish(p, Return(SuccessResult(req[p], loc[p])))
    /\ UNCHANGED <<fs, editor, conns, req, loc, fibers, hist>>

\* the close of the success path throws inside the inner try
CloseFail(p) ==
    /\ pc[p] = "close"
    /\ \E e \in CloseFailures : InnerCatch(p, e)
    /\ hist' = [hist EXCEPT ![p].closeFailed = TRUE]
    /\ UNCHANGED <<fs, editor, req, fibers, result, escaped>>

\* lines 153-158, 287-292, 375-380: the close of the inner catch settles (a
\* failure of it is ignored), rpcError is rethrown and the outer catch returns
CloseErrSettle(p) ==
    /\ pc[p] = "closeErr"
    /\ \E failed \in BOOLEAN :
         hist' = [hist EXCEPT ![p].closeFailed = @ \/ failed]
    /\ Finish(p, OuterCatch(req[p], loc[p].instance[1], loc[p].rpcError[1]))
    /\ UNCHANGED <<fs, editor, conns, req, loc, fibers>>

(***************************************************************************)
(* getNeovimInstanceDetails, lines 112-136                                 *)
(***************************************************************************)
\* line 114: getcwd replied; nvim.buffer is requested
SnapGetcwd(p) ==
    /\ pc[p] = "getcwd"
    /\ Advance(p, [loc[p] EXCEPT !.workingDirectory = <<"/home">>],
               "buffer", Rq("nvim_get_current_buf", <<>>))

\* line 117: the current buffer replied; its name is requested
SnapBuffer(p) ==
    /\ pc[p] = "buffer"
    /\ Advance(p, [loc[p] EXCEPT !.currentBuffer = editor.cur],
               "bufname", Rq("nvim_buf_get_name", <<editor.cur>>))

\* line 118: the name replied; getpos('.') is called
SnapBufName(p) ==
    /\ pc[p] = "bufname"
    /\ Advance(p, [loc[p] EXCEPT !.currentFile = BufName(loc[p].currentBuffer)],
               "getpos", Rq("getpos", <<".">>))

\* line 119: getpos replied [bufnum, lnum, col, off]; nvim.buffers is requested
SnapGetpos(p) ==
    /\ pc[p] = "getpos"
    /\ LET reply == <<0, 3, 4, 0>>
       IN  Advance(p, [loc[p] EXCEPT !.pos = <<reply[2], reply[3]>>],
                   "buffers", Rq("nvim_list_bufs", <<>>))

\* lines 122-125: the buffer list replied; the callback of every buffer runs up
\* to its first await, so every name is requested before any reply is awaited
SnapBuffers(p) ==
    /\ pc[p] = "buffers"
    /\ LET all == SetToSeq(editor.bufs)
           names == [i \in 1..Len(all) |-> Rq("nvim_buf_get_name", <<all[i]>>)]
       IN  /\ loc' = [loc EXCEPT ![p].allBuffers = all,
                                 ![p].infos = [i \in 1..Len(all) |-> None]]
           /\ fibers' = [fibers EXCEPT ![p] = [i \in 1..Len(all) |-> "name"]]
           /\ conns' = IssueAll(conns, loc[p].nvim, names)
    /\ pc' = [pc EXCEPT ![p] = "all"]
    /\ UNCHANGED <<fs, editor, req, result, escaped, hist>>

\* lines 125-126: the name of buffer i replied; its loaded flag is requested
FiberName(p, i) ==
    /\ i \in DOMAIN fibers[p]
    /\ fibers[p][i] = "name"
    /\ fibers' = [fibers EXCEPT ![p][i] = "loaded"]
    /\ conns' = Issue(conns, loc[p].nvim,
                      Rq("nvim_buf_is_loaded", <<loc[p].allBuffers[i]>>))
    /\ UNCHANGED <<fs, editor, pc, req, loc, result, escaped, hist>>

\* lines 127-134: the element of the buffers array the callback returns
BufferInfo(b, currentBuffer) ==
    [id |-> b,
     name |-> IF BufName(b) # <<>> THEN BufName(b)
              ELSE <<"[Buffer ", ToString(b), "]">>,
     loaded |-> BufLoaded(b),
     current |-> b = currentBuffer]

\* lines 126-139: the loaded flag of buffer i replied and its callback returns;
\* when it is the last one, Promise.all resolves and close is called
FiberLoaded(p, i) ==
    /\ i \in DOMAIN fibers[p]
    /\ fibers[p][i] = "loaded"
    /\ LET fs2 == [fibers[p] EXCEPT ![i] = "done"]
           l == [loc[p] EXCEPT
                   !.infos[i] = BufferInfo(loc[p].allBuffers[i], loc[p].currentBuffer)]
       IN  /\ fibers' = [fibers EXCEPT ![p] = fs2]
           /\ loc' = [loc EXCEPT ![p] = l]
           /\ IF pc[p] = "all" /\ \A j \in DOMAIN fs2 : fs2[j] = "done"
              THEN /\ pc' = [pc EXCEPT ![p] = "close"]
                   /\ conns' = CloseCall(conns, l.nvim)
              ELSE UNCHANGED <<pc, conns>>
    /\ UNCHANGED <<fs, editor, req, result, escaped, hist>>

\* a name or loaded request of buffer i fails: the first such failure rejects
\* Promise.all and reaches the inner catch, a later one is dropped
FiberFail(p, i) ==
    /\ i \in DOMAIN fibers[p]
    /\ fibers[p][i] \in {"name", "loaded"}
    /\ fibers' = [fibers EXCEPT ![p][i] = "failed"]
    /\ \E e \in UseFailures :
         /\ hist' = [hist EXCEPT ![p] = FirstFail(@, e, pc[p])]
         /\ IF pc[p] = "all"
            THEN InnerCatch(p, e)
            ELSE UNCHANGED <<pc, loc, conns>>
    /\ UNCHANGED <<fs, editor, req, result, escaped>>

(***************************************************************************)
(* openFileInNeovim, lines 248-276                                         *)
(***************************************************************************)
\* a default that is 1 for both columns
OrDefaultOne(opt, d) == IF opt = None \/ opt[1] = 0 THEN 1 ELSE opt[1]

\* column || 1, endColumn || 999
OrDefault(opt, d) == IF opt = None \/ opt[1] = 0 THEN d ELSE opt[1]

\* an edit after which the reload is sent only when a position is given
NavEditNoReload(p) ==
    /\ pc[p] = "edit"
    /\ IF req[p].line # None
       THEN Advance(p, loc[p], "checktime", Rq("nvim_command", <<"checktime">>))
       ELSE AdvanceClose(p, [loc[p] EXCEPT !.resultMessage =
                                <<"Opened ">> \o req[p].filePath])

\* line 250: edit replied; checktime is sent
NavEdit(p) ==
    /\ pc[p] = "edit"
    /\ Advance(p, loc[p], "checktime", Rq("nvim_command", <<"checktime">>))

\* a checktime after which the cursor moves when either line is given
NavChecktimeLoose(p) ==
    /\ pc[p] = "checktime"
    /\ LET r == req[p]
           l == [loc[p] EXCEPT !.resultMessage = <<"Opened ">> \o r.filePath]
       IN  IF r.line # None \/ r.endLine # None
           THEN Advance(p, l, "cursor",
                        Rq("cursor", <<OrDefault(r.line, 1), OrDefault(r.column, 1)>>))
           ELSE AdvanceClose(p, l)

\* lines 253-260: checktime replied; the cursor call when line is given
NavChecktime(p) ==
    /\ pc[p] = "checktime"
    /\ LET r == req[p]
           l == [loc[p] EXCEPT !.resultMessage = <<"Opened ">> \o r.filePath]
       IN  IF r.line # None
           THEN Advance(p, l, "cursor",
                        Rq("cursor", <<r.line[1], OrDefault(r.column, 1)>>))
           ELSE AdvanceClose(p, l)

\* lines 260-268: cursor replied; visual mode when endLine is given
NavCursor(p) ==
    /\ pc[p] = "cursor"
    /\ LET r == req[p]
           l == [loc[p] EXCEPT !.resultMessage =
                   @ \o <<" at line ", ToString(r.line[1]), ", column ",
                          ToString(OrDefault(r.column, 1))>>]
       IN  IF r.endLine # None
           THEN Advance(p, l, "inputv", Rq("nvim_input", <<"v">>))
           ELSE AdvanceClose(p, l)

\* lines 268-269: the input replied; the second cursor call
NavInputV(p) ==
    /\ pc[p] = "inputv"
    /\ Advance(p, loc[p], "cursor2",
               Rq("cursor", <<req[p].endLine[1], OrDefault(req[p].endColumn, 999)>>))

\* lines 269-276: the second cursor call replied
NavCursor2(p) ==
    /\ pc[p] = "cursor2"
    /\ AdvanceClose(p, [loc[p] EXCEPT !.resultMessage =
           @ \o <<" (selected to line ", ToString(req[p].endLine[1]), ", column ",
                  ToString(OrDefault(req[p].endColumn, 999)), ")">>])

(***************************************************************************)
(* executeInNeovim, lines 328-365                                          *)
(***************************************************************************)
\* lines 333-334: the input replied
ExecInput(p) ==
    /\ pc[p] = "input"
    /\ AdvanceClose(p, [loc[p] EXCEPT !.resultMessage =
           <<"Executed key sequence: ">> \o req[p].command])

\* lines 358-361: the message of command mode (" -> " stands for the arrow)
CommandMessage(command, output) ==
    <<"Executed command: ">> \o command
    \o (IF output # <<>> /\ Trim(output) # <<>> THEN <<" -> ">> \o Trim(output) ELSE <<>>)

\* lines 341-343, 351-352: nvim.command replied
ExecCommandOk(p) ==
    /\ pc[p] = "command"
    /\ \E res \in CommandResults :
         LET output == IF res # None /\ res[1] # <<>> THEN res[1] ELSE <<>>
         IN  AdvanceClose(p, [loc[p] EXCEPT
                 !.output = output,
                 !.resultMessage = CommandMessage(req[p].command, output)])

\* cmdError instanceof Error ? cmdError.message : 'Command executed (may have failed)'
CommandErrorOutput(e) ==
    IF e.isError THEN e.message ELSE <<"Command executed (may have failed)">>

\* lines 344-347, 353-355: nvim.command threw; the failure becomes the output
ExecCommandFail(p) ==
    /\ pc[p] = "command"
    /\ \E e \in UseFailures :
         LET output == CommandErrorOutput(e)
             l == [loc[p] EXCEPT
                     !.output = output,
                     !.resultMessage = CommandMessage(req[p].command, output)]
         IN  /\ loc' = [loc EXCEPT ![p] = l]
             /\ pc' = [pc EXCEPT ![p] = "close"]
             /\ conns' = CloseCall(conns, l.nvim)
             /\ hist' = [hist EXCEPT ![p] = FirstFail(@, e, pc[p])]
    /\ UNCHANGED <<fs, editor, req, fibers, result, escaped>>

(***************************************************************************)
(* Specifications                                                          *)
(***************************************************************************)
\* attach, a remote call or a close of call p completes, with a reply or with
\* a failure, and the call runs on to its next await or to its return
Completes(p) ==
    \/ AttachOk(p) \/ AttachFail(p)
    \/ RpcFail(p)
    \/ CloseOk(p) \/ CloseFail(p) \/ CloseErrSettle(p)
    \/ SnapGetcwd(p) \/ SnapBuffer(p) \/ SnapBufName(p) \/ SnapGetpos(p)
    \/ SnapBuffers(p)
    \/ \E i \in BufIds : FiberName(p, i) \/ FiberLoaded(p, i) \/ FiberFail(p, i)
    \/ NavEdit(p) \/ NavChecktime(p) \/ NavCursor(p) \/ NavInputV(p) \/ NavCursor2(p)
    \/ ExecInput(p) \/ ExecCommandOk(p) \/ ExecCommandFail(p)

\* the steps of call p, whose arguments are drawn from Reqs
Step(p, Reqs) ==
    \/ Start(p, Reqs)
    \/ Completes(p)

\* one public operation is called, with any arguments, and runs alone
Next == Step(1, FullReqs)

Spec == Init /\ [][Next]_vars

\* every call of Procs runs one operation, concurrently with the other
NextConc == \E p \in Procs : Step(p, SmallReqs)

SpecConc == Init /\ [][NextConc]_vars

\* two calls against instance 1 run concurrently: call 1 is a snapshot, a
\* navigate or an execute in command mode, call 2 an execute in key-sequence
\* mode
PairReqs1 ==
    {SnapshotReq(1), NavigateReq(1, Some(10), None, Some(20), None),
     ExecuteReq(1, <<":", "w">>, FALSE)}
PairReqs2 == {ExecuteReq(1, <<":", "w">>, TRUE)}

NextPair ==
    \/ Step(1, PairReqs1)
    \/ Step(2, PairReqs2)

SpecPair == Init /\ [][NextPair]_vars

\* another client of the editor opens, wipes or switches buffers
EditorChange ==
    /\ \E e \in Editors \ {editor} : editor' = e
    /\ UNCHANGED <<fs, conns, pc, req, loc, fibers, result, escaped, hist>>

\* one public operation runs while another client changes the editor
NextEdit ==
    \/ Step(1, SmallReqs)
    \/ EditorChange

SpecEdit == Init /\ [][NextEdit]_vars

\* a remote call of call p turns out never to complete: the await of that call
\* never resumes, and no deadline of the operation ends it
Hang(p) ==
    \/ /\ pc[p] \in SeqAwaits \cup {"command"}
       /\ pc' = [pc EXCEPT ![p] = "hung"]
       /\ UNCHANGED <<fs, editor, conns, req, loc, fibers, result, escaped, hist>>
    \/ /\ \E i \in DOMAIN fibers[p] :
            /\ fibers[p][i] \in {"name", "loaded"}
            /\ fibers' = [fibers EXCEPT ![p][i] = "hung"]
       /\ UNCHANGED <<fs, editor, conns, pc, req, loc, result, escaped, hist>>

\* one public operation runs; any of its remote calls may hang
NextLive ==
    \/ Step(1, FullReqs)
    \/ Hang(1)

\* attach, every close and every remote call that does not hang complete
SpecLive == Init /\ [][NextLive]_vars /\ WF_vars(Completes(1))

(***************************************************************************)
(* Discovery and the locator called on their own                           *)
(***************************************************************************)
MaxEntries == 2          \* directory entries of the discovery specification

\* names that have the socket form, names that only look like it, and others
DiscNames ==
    {SockName(<<"1">>), SockName(<<"1", "2">>),
     NvimPrefix \o SockName(<<"1">>),              \* nvim-nvim-1.sock
     SockName(<<"2">>) \o SockSuffix,              \* nvim-2.sock.sock
     SockName(<<"x", "1">>),                       \* nvim-x1.sock
     <<"f", "o", "o">>}
DiscEntries == {Entry(n, k) : n \in DiscNames, k \in {"socket", "file", "nostat"}}

\* the listings of at most n entries with different names
RECURSIVE Listings(_)
Listings(n) ==
    IF n = 0 THEN {<<>>}
    ELSE LET shorter == Listings(n - 1)
         IN  shorter \cup
             {Append(es, e) : es \in {x \in shorter : Len(x) = n - 1}, e \in DiscEntries}

DistinctNames(es) ==
    \A i, j \in DOMAIN es : i # j => es[i].name # es[j].name

\* every directory: present and readable, present and unreadable, missing
DiscDirs ==
    {[exists |-> TRUE, readable |-> r, entries |-> es] :
        r \in BOOLEAN, es \in {x \in Listings(MaxEntries) : DistinctNames(x)}}
    \cup {DirMissing}

\* lines 48-84: findNeovimSockets is called on the directory as it is now
Discover(p) ==
    /\ pc[p] = "idle"
    /\ req' = [req EXCEPT ![p] = [op |-> "discover", dir |-> fs]]
    /\ Finish(p, Return(findNeovimSockets(fs)))
    /\ UNCHANGED <<fs, editor, conns, loc, fibers, hist>>

InitDisc ==
    /\ fs \in DiscDirs
    /\ InitCalls

\* discovery is run once on any directory
NextDisc == \E p \in {1} : Discover(p)

SpecDisc == InitDisc /\ [][NextDisc]_vars

\* pid 1 under another name, and two live instances
DirMoved ==
    [exists |-> TRUE, readable |-> TRUE,
     entries |-> <<Entry(SockName(<<"0", "1">>), "socket")>>]
DirBoth ==
    [exists |-> TRUE, readable |-> TRUE,
     entries |-> <<Entry(SockName(<<"2">>), "socket"),
                   Entry(SockName(<<"1">>), "socket")>>]
LocDirs == {DirLive, DirMissing, DirMoved, DirBoth}

\* a locator that keeps the directory listing of an earlier call
LocateCached(p) ==
    /\ pc[p] = "idle"
    /\ \E pid \in Pids :
         LET earlier == {q \in Procs : req[q].op = "locate"}
             d == IF earlier = {} THEN fs ELSE req[CHOOSE q \in earlier : TRUE].dir
         IN  /\ req' = [req EXCEPT ![p] = [op |-> "locate", pid |-> pid, dir |-> fs]]
             /\ Finish(p, Return(getNeovimInstance(d, pid)))
    /\ UNCHANGED <<fs, editor, conns, loc, fibers, hist>>

\* lines 89-92: getNeovimInstance(pid) is called on the directory as it is now
Locate(p) ==
    /\ pc[p] = "idle"
    /\ \E pid \in Pids :
         /\ req' = [req EXCEPT ![p] = [op |-> "locate", pid |-> pid, dir |-> fs]]
         /\ Finish(p, Return(getNeovimInstance(fs, pid)))
    /\ UNCHANGED <<fs, editor, conns, loc, fibers, hist>>

\* instances start and exit: the directory changes
FsChange ==
    /\ \E d \in LocDirs \ {fs} : fs' = d
    /\ UNCHANGED <<editor, conns, pc, req, loc, fibers, result, escaped, hist>>

\* the locator is called twice while the directory changes
NextLocate ==
    \/ \E p \in Procs : Locate(p)
    \/ FsChange

SpecLocate == Init /\ [][NextLocate]_vars

(***************************************************************************)
(* Properties                                                              *)
(***************************************************************************)
Done(p) == pc[p] = "done"
Res(p) == result[p][1]
Attached(p) == hist[p].attach = "ok"
Closes(p) == conns[loc[p].nvim].closes
IsFailure(p) ==
    IF req[p].op = "snapshot" THEN "error" \in DOMAIN Res(p) ELSE ~Res(p).success
\* a remote call of call p failed and its failure reached the inner catch
FailedInUse(p) ==
    /\ Attached(p)
    /\ hist[p].fail # None
    /\ loc[p].rpcError = hist[p].fail
\* the instances discovery reports hold one with this pid
InDiscovery(d, pid) ==
    \E i \in DOMAIN findNeovimSockets(d) : findNeovimSockets(d)[i].pid = pid
Mentions(msg, pid) == \E i \in DOMAIN msg : msg[i] = ToString(pid)
\* the part of an error message the operation chooses: its leading label
ErrorKind(v) == Head(v.error)

\* C1: once attach has succeeded, an operation that has returned has invoked
\* close on its connection exactly once, on every exit path.
C1_CloseExactlyOnce ==
    \A p \in Procs : Done(p) /\ Attached(p) => Closes(p) = 1

\* C2: a failure of close never changes the result: with every remote call
\* succeeding the operation returns its success result, and with a remote call
\* failing the returned error is the error of that remote call.
C2_CloseFailureKeepsOutcome ==
    \A p \in Procs :
        Done(p) /\ Attached(p) =>
            /\ hist[p].fail = None => ~IsFailure(p)
            /\ hist[p].fail # None /\ IsFailure(p) =>
                   Res(p).error = <<ConnectErrorLabel>> \o ErrorMessage(hist[p].fail[1])

\* C3: an operation that returns after attach succeeded has invoked close on
\* its connection at least once.
C3_NoConnectionLeak ==
    \A p \in Procs : Done(p) /\ Attached(p) => Closes(p) >= 1

\* C3, its case: a remote call raised a transport error and the operation
\* returned
C3_Witness ==
    \E p \in Procs :
        /\ Done(p) /\ FailedInUse(p)
        /\ hist[p].fail[1].tier = "transport"
        /\ Closes(p) >= 1

\* C4: every public operation is total: it ends by returning a result value,
\* and no failure escapes it.
C4_Total ==
    \A p \in Procs : (Done(p) => result[p] # None) /\ ~escaped[p]

\* C4, its case: a remote call failed, close failed too, and a value came back
C4_Witness ==
    \E p \in Procs :
        /\ Done(p) /\ FailedInUse(p) /\ hist[p].closeFailed
        /\ ~hist[p].fail[1].isError
        /\ result[p] # None

\* C5: a snapshot that has error set has none of workingDirectory,
\* currentFile, buffers, cursorPosition.
C5_SnapshotAtomic ==
    \A p \in Procs :
        Done(p) /\ req[p].op = "snapshot" /\ "error" \in DOMAIN Res(p) =>
            DOMAIN Res(p) \cap
                {"workingDirectory", "currentFile", "buffers", "cursorPosition"} = {}

\* C5, its case: the fetch of one buffer failed after getcwd and the fetch of
\* another buffer had succeeded
C5_Witness ==
    \E p \in Procs :
        /\ Done(p) /\ req[p].op = "snapshot" /\ "error" \in DOMAIN Res(p)
        /\ loc[p].workingDirectory # <<>>
        /\ \E i, j \in DOMAIN fibers[p] :
               fibers[p][i] = "done" /\ fibers[p][j] = "failed"

\* C6: every result of navigate and execute has error present exactly when
\* success is false, and has a non-empty message.
C6_ErrorIffFailure ==
    \A p \in Procs :
        Done(p) /\ req[p].op \in {"navigate", "execute"} =>
            /\ "error" \in DOMAIN Res(p) <=> ~Res(p).success
            /\ "message" \in DOMAIN Res(p)
            /\ Res(p).message # <<>>

\* C6, its case: execute in command mode returned success after the remote
\* rejected the command
C6_Witness ==
    \E p \in Procs :
        /\ Done(p) /\ req[p].op = "execute" /\ ~req[p].isKeySequence
        /\ hist[p].fail # None
        /\ Res(p).success
        /\ "error" \notin DOMAIN Res(p)

\* C7: a call whose id is not in the discovery set has returned at once: the
\* snapshot echoes the id with an empty socket path and its error mentions the
\* id, navigate and execute return success false with an error mentioning the
\* id, and no attach, no remote call and no close was attempted.
C7_NotFoundShortCircuit ==
    \A p \in Procs :
        req[p].op # "none" /\ ~InDiscovery(fs, req[p].pid) =>
            /\ Done(p)
            /\ hist[p] = NoHist
            /\ loc[p].nvim = 0
            /\ Len(conns) = Cardinality({q \in Procs : Attached(q)})
            /\ Mentions(Res(p).error, req[p].pid)
            /\ IF req[p].op = "snapshot"
               THEN Res(p).instance = [socket |-> <<>>, pid |-> req[p].pid]
               ELSE ~Res(p).success

\* C7, its case: the directory holds a live instance, but not the one asked for
C7_Witness ==
    \E p \in Procs :
        /\ Done(p) /\ req[p].op = "navigate"
        /\ ~InDiscovery(fs, req[p].pid)
        /\ InDiscovery(fs, 1)

\* C8: when attach fails no session is entered: the operation has returned a
\* failure result, and it has no connection, so no remote call and no close.
C8_ConnectFailureShortCircuit ==
    \A p \in Procs :
        hist[p].attach = "fail" =>
            /\ Done(p)
            /\ IsFailure(p)
            /\ loc[p].nvim = 0
            /\ Len(conns) = Cardinality({q \in Procs : Attached(q)})

\* C8, its case: the instance was located and attach failed
C8_Witness ==
    \E p \in Procs :
        /\ hist[p].attach = "fail"
        /\ loc[p].instance # None
        /\ Done(p)

\* C9: a failure to connect and a failure while connected are reported with
\* different kinds of error message.
C9_TwoTierKinds ==
    \A p, q \in Procs :
        /\ Done(p) /\ hist[p].attach = "fail"
        /\ Done(q) /\ FailedInUse(q)
        => ErrorKind(Res(p)) # ErrorKind(Res(q))

\* C10: a transport failure of a remote call made after the connection was
\* established yields a failure result, in execute command mode too.
C10_TransportFailureFails ==
    \A p \in Procs :
        /\ Done(p) /\ Attached(p)
        /\ hist[p].fail # None
        /\ hist[p].fail[1].tier = "transport"
        => IsFailure(p)

\* the remote calls issued on the connection of call p, in order
Log(p) == conns[loc[p].nvim].log
\* call p is an execute call in command mode (key-sequence mode when key)
IsExecute(p, key) == req[p].op = "execute" /\ req[p].isKeySequence = key

\* C11: execute in command mode whose command the remote rejects returns
\* success true with no error field, the trimmed rejection text appended to
\* the message.
C11_CommandRejectionIsSuccess ==
    \A p \in Procs :
        /\ Done(p) /\ IsExecute(p, FALSE) /\ Attached(p)
        /\ hist[p].fail # None
        /\ hist[p].fail[1].tier = "domain"
        => /\ Res(p).success
           /\ "error" \notin DOMAIN Res(p)
           /\ hist[p].fail[1].isError =>
                  Res(p).message = <<"Executed command: ">> \o req[p].command
                                   \o <<" -> ">> \o Trim(hist[p].fail[1].message)

\* C12: execute in key-sequence mode hands the caller's string unchanged to
\* the raw-input primitive, in exactly one raw-input call and no command call,
\* and reports success true once the injection completed without a failure.
C12_KeySequenceVerbatim ==
    \A p \in Procs :
        IsExecute(p, TRUE) /\ Attached(p) =>
            /\ Len(Log(p)) = 1
            /\ Log(p)[1].method = "nvim_input"
            /\ Log(p)[1].args = req[p].command
            /\ Done(p) /\ hist[p].fail = None => Res(p).success

\* C13: execute in command mode dispatches the caller's string with exactly
\* one leading ':' removed when it begins with ':' and unchanged otherwise, in
\* exactly one command call, and the result echoes the caller's string.
C13_CommandDispatch ==
    \A p \in Procs :
        IsExecute(p, FALSE) /\ Attached(p) =>
            /\ Len(Log(p)) = 1
            /\ Log(p)[1].method = "nvim_command"
            /\ Log(p)[1].args =
                   IF req[p].command # <<>> /\ req[p].command[1] = ":"
                   THEN SubSeq(req[p].command, 2, Len(req[p].command))
                   ELSE req[p].command
            /\ Done(p) => Res(p).command = req[p].command

\* C13, its case: a command with two leading colons was dispatched and the
\* call returned
C13_Witness ==
    \E p \in Procs :
        /\ Done(p) /\ IsExecute(p, FALSE) /\ Attached(p)
        /\ req[p].command = <<":", ":", "w">>
        /\ Log(p)[1].args = <<":", "w">>
        /\ Res(p).success

IsNavigate(p) == req[p].op = "navigate"
IsCall(e, method, args) == e.method = method /\ e.args = args
\* the step of navigate a remote call belongs to
NavKind(e) ==
    IF e.method = "nvim_command"
    THEN IF e.args = <<"checktime">> THEN "checktime"
         ELSE IF Head(e.args) = "edit " THEN "edit" ELSE "command"
    ELSE IF e.method = "nvim_input" THEN "inputv" ELSE e.method
NavOrder == <<"edit", "checktime", "cursor", "inputv", "cursor">>
NavStepNo(at) ==
    CASE at = "edit" -> 1 [] at = "checktime" -> 2 [] at = "cursor" -> 3
      [] at = "inputv" -> 4 [] at = "cursor2" -> 5

\* C14: navigate with line given and column omitted moves the cursor to
\* (line, 1) and, with endLine omitted, issues no visual-mode input and no
\* second cursor call; with endLine given and endColumn omitted too it enters
\* selection mode and extends to (endLine, 999).
C14_ColumnDefaults ==
    \A p \in Procs :
        /\ IsNavigate(p) /\ Attached(p)
        /\ req[p].line # None /\ req[p].column = None
        => /\ Len(Log(p)) >= 3 => IsCall(Log(p)[3], "cursor", <<req[p].line[1], 1>>)
           /\ req[p].endLine = None => Len(Log(p)) <= 3
           /\ req[p].endLine # None /\ req[p].endColumn = None =>
                  /\ Len(Log(p)) >= 4 => IsCall(Log(p)[4], "nvim_input", <<"v">>)
                  /\ Len(Log(p)) >= 5 =>
                         IsCall(Log(p)[5], "cursor", <<req[p].endLine[1], 999>>)
           /\ Done(p) /\ hist[p].fail = None =>
                  Len(Log(p)) = IF req[p].endLine = None THEN 3 ELSE 5

\* C14, its case: line and endLine given, both columns omitted, every step
\* succeeded
C14_Witness ==
    \E p \in Procs :
        /\ Done(p) /\ IsNavigate(p) /\ Attached(p)
        /\ req[p].line = Some(10) /\ req[p].column = None
        /\ req[p].endLine = Some(20) /\ req[p].endColumn = None
        /\ Len(Log(p)) = 5
        /\ Res(p).success

\* C15: the remote calls of navigate are issued in the order edit, checktime,
\* cursor, visual-mode input, cursor; checktime is issued whenever edit
\* succeeded, line given or not; nothing follows checktime before it succeeded.
C15_ReloadAndOrder ==
    \A p \in Procs :
        IsNavigate(p) /\ Attached(p) =>
            /\ Len(Log(p)) <= Len(NavOrder)
            /\ \A i \in DOMAIN Log(p) : NavKind(Log(p)[i]) = NavOrder[i]
            /\ pc[p] # "edit" /\ hist[p].failAt # "edit" => Len(Log(p)) >= 2
            /\ pc[p] = "checktime" \/ hist[p].failAt = "checktime" => Len(Log(p)) = 2

\* C15, its case: navigate without line returned after edit and checktime
C15_Witness ==
    \E p \in Procs :
        /\ Done(p) /\ IsNavigate(p) /\ Attached(p)
        /\ req[p].line = None
        /\ Len(Log(p)) = 2
        /\ Res(p).success

\* C16: the visual-mode input and the second cursor call are issued only when
\* both line and endLine are given; with endLine given and line omitted no
\* cursor call and no visual-mode input is issued and the message describes
\* the open alone.
C16_SelectionGating ==
    \A p \in Procs :
        IsNavigate(p) /\ Attached(p) =>
            /\ (\E i \in DOMAIN Log(p) : i >= 4 \/ Log(p)[i].method = "nvim_input")
                   => req[p].line # None /\ req[p].endLine # None
            /\ req[p].line = None /\ req[p].endLine # None =>
                   /\ \A i \in DOMAIN Log(p) : Log(p)[i].method = "nvim_command"
                   /\ Done(p) =>
                          /\ \A i \in DOMAIN Res(p).message :
                                 Res(p).message[i] \notin {" at line ", " (selected to line "}
                          /\ Res(p).success =>
                                 Res(p).message = <<"Opened ">> \o req[p].filePath

\* C16, its case: endLine given without line, and the call returned success
C16_Witness ==
    \E p \in Procs :
        /\ Done(p) /\ IsNavigate(p) /\ Attached(p)
        /\ req[p].line = None /\ req[p].endLine = Some(20)
        /\ Res(p).success

\* C17: when a step of navigate fails no later step is issued, the connection
\* is closed and the result is success false carrying the error message of
\* the failed step, the calls of the earlier steps having been made.
C17_AbortOnFailure ==
    \A p \in Procs :
        IsNavigate(p) /\ Attached(p) /\ hist[p].fail # None =>
            /\ Len(Log(p)) = NavStepNo(hist[p].failAt)
            /\ \A i \in DOMAIN Log(p) : NavKind(Log(p)[i]) = NavOrder[i]
            /\ Closes(p) >= 1
            /\ Done(p) =>
                   /\ ~Res(p).success
                   /\ ErrorKind(Res(p)) = ConnectErrorLabel
                   /\ hist[p].fail[1].isError =>
                          Tail(Res(p).error) = hist[p].fail[1].message

\* C17, its case: visual mode was entered and the second cursor call failed
C17_Witness ==
    \E p \in Procs :
        /\ Done(p) /\ IsNavigate(p) /\ Attached(p)
        /\ hist[p].failAt = "cursor2"
        /\ Log(p)[4].method = "nvim_input"
        /\ ~Res(p).success

\* a whole name of the form nvim-<digits>.sock
WholeForm(name) ==
    /\ Len(name) > Len(NvimPrefix) + Len(SockSuffix)
    /\ StartsWith(name, NvimPrefix)
    /\ EndsWith(name, SockSuffix)
    /\ \A i \in (Len(NvimPrefix) + 1)..(Len(name) - Len(SockSuffix)) : name[i] \in Digits
\* the digit run of such a name
DigitsOf(name) == SubSeq(name, Len(NvimPrefix) + 1, Len(name) - Len(SockSuffix))
\* one instance per socket entry of that form, in listing order
RECURSIVE ExactInstances(_)
ExactInstances(es) ==
    IF es = <<>> THEN <<>>
    ELSE (IF Head(es).kind = "socket" /\ WholeForm(Head(es).name)
          THEN <<[socket |-> Join(TmpDir, Head(es).name),
                  pid |-> ParseInt(DigitsOf(Head(es).name))]>>
          ELSE <<>>) \o ExactInstances(Tail(es))

\* C18: for any directory content discovery returns exactly one instance per
\* entry that is a socket and whose whole name is nvim-<digits>.sock, with id
\* the digit run, and nothing for any other entry.
C18_DiscoveryExact ==
    \A p \in Procs :
        /\ Done(p) /\ req[p].op = "discover"
        /\ req[p].dir.exists /\ req[p].dir.readable
        => Res(p) = ExactInstances(req[p].dir.entries)

\* C19: the locator answers from the directory as it is at the call: for an
\* id discovery reports, an instance with that id that discovery reports; for
\* any other id, the not-found value; it never throws.
C19_LocatorCorrect ==
    \A p \in Procs :
        Done(p) /\ req[p].op = "locate" =>
            /\ ~escaped[p]
            /\ result[p] # None
            /\ IF InDiscovery(req[p].dir, req[p].pid)
               THEN /\ Res(p) # None
                    /\ Res(p)[1].pid = req[p].pid
                    /\ \E i \in DOMAIN findNeovimSockets(req[p].dir) :
                           findNeovimSockets(req[p].dir)[i] = Res(p)[1]
               ELSE Res(p) = None

\* C19, its case: two calls for the same id, the directory changed between
\* them, the first found the instance and the second did not
C19_Witness ==
    \E p, q \in Procs :
        /\ Done(p) /\ req[p].op = "locate"
        /\ Done(q) /\ req[q].op = "locate"
        /\ req[p].pid = req[q].pid
        /\ req[p].dir # req[q].dir
        /\ Res(p) # None
        /\ Res(q) = None

\* C20: a snapshot returned without error whose buffer list is not empty has
\* exactly one buffer with current = TRUE, also when the buffers of the editor
\* change between the fetch of the current buffer and the fetch of the list.
C20_OneCurrentBuffer ==
    \A p \in Procs :
        /\ Done(p) /\ req[p].op = "snapshot"
        /\ "error" \notin DOMAIN Res(p)
        /\ Len(Res(p).buffers) > 0
        => Cardinality({i \in DOMAIN Res(p).buffers : Res(p).buffers[i].current}) = 1


\* the remote calls of call p that have been issued and not yet answered: the
\* one the call is suspended at, and one for every buffer callback in flight
Pending(p) ==
    (IF pc[p] \in SeqAwaits \cup {"command", "hung"} THEN 1 ELSE 0)
    + Cardinality({i \in DOMAIN fibers[p] : fibers[p][i] \in {"name", "loaded", "hung"}})

\* C21: within one snapshot, navigate or execute operation at most one remote
\* call is outstanding at any time, the per-buffer name and loaded fetches of
\* snapshot included.
C21_SequentialDispatch ==
    \A p \in Procs : Pending(p) <= 1


\* call p holds a connection returned by its attach
HasConn(p) == loc[p].nvim # 0
\* the closes call p has invoked so far: one on the success path or in the
\* inner catch, two when the close of the success path threw
OwnCloses(p) ==
    IF loc[p].rpcError # None
    THEN IF loc[p].rpcError[1].tier = "release" THEN 2 ELSE 1
    ELSE IF pc[p] \in {"close", "done"} THEN 1 ELSE 0
\* the remote call e is one the operation of request r makes
OwnCall(r, e) ==
    CASE r.op = "snapshot" ->
           e.method \in {"getcwd", "nvim_get_current_buf", "nvim_buf_get_name",
                         "getpos", "nvim_list_bufs", "nvim_buf_is_loaded"}
      [] r.op = "navigate" ->
           \/ e.method = "cursor"
           \/ e.method = "nvim_input" /\ e.args = <<"v">>
           \/ e.method = "nvim_command"
              /\ e.args \in {<<"edit ">> \o r.filePath, <<"checktime">>}
      [] r.op = "execute" ->
           IF r.isKeySequence
           THEN e.method = "nvim_input" /\ e.args = r.command
           ELSE e.method = "nvim_command" /\ e.args = CleanCommand(r.command)

\* C22: concurrent operations, also against the same instance id, each attach
\* for themselves and use and close only their own connection: no two calls
\* hold the same connection, a connection carries only the remote calls and
\* the closes of the call that opened it, and a call fails only for a cause of
\* its own (instance not found, its attach, one of its remote calls or its
\* close failed).
C22_Independent ==
    /\ Len(conns) = Cardinality({p \in Procs : HasConn(p)})
    /\ \A p \in Procs :
        /\ HasConn(p) =>
            /\ \A q \in Procs \ {p} : loc[q].nvim # loc[p].nvim
            /\ conns[loc[p].nvim].socket = loc[p].instance[1].socket
            /\ \A i \in DOMAIN Log(p) : OwnCall(req[p], Log(p)[i])
            /\ Closes(p) = OwnCloses(p)
        /\ Done(p) /\ IsFailure(p) =>
            \/ loc[p].instance = None
            \/ hist[p].fail # None
            \/ hist[p].closeFailed

\* C22, its case: two calls against the same instance id are in flight at
\* once; one has had a remote call fail and has invoked close, the other is
\* in the middle of its sequence on its own connection, which is not closed
C22_Witness ==
    \E p, q \in Procs :
        /\ p # q
        /\ req[p].op # "none" /\ req[q].op # "none"
        /\ req[p].pid = req[q].pid
        /\ HasConn(p) /\ HasConn(q)
        /\ pc[q] = "closeErr" /\ FailedInUse(q) /\ Closes(q) = 1
        /\ pc[p] \in SeqAwaits /\ Len(Log(p)) >= 2 /\ Closes(p) = 0


\* the instance discovery reports for the directory entry e
InstanceOf(e) ==
    [socket |-> Join(TmpDir, e.name), pid |-> ParseInt(DigitsOf(e.name))]
\* the list v holds an instance whose socket is the directory entry e
Reports(v, e) == \E k \in DOMAIN v : v[k].socket = Join(TmpDir, e.name)

\* C23: discovery never fails: it returns a list; the list is empty when the
\* directory is missing or cannot be read; an entry whose status check fails
\* is left out, and every socket entry named nvim-<digits>.sock is returned
\* whatever happens to the other entries.
C23_DiscoveryNeverFails ==
    \A p \in Procs :
        Done(p) /\ req[p].op = "discover" =>
            LET d == req[p].dir
            IN  /\ ~escaped[p]
                /\ result[p] # None
                /\ ~d.exists \/ ~d.readable => Res(p) = <<>>
                /\ d.exists /\ d.readable =>
                       \A i \in DOMAIN d.entries :
                           LET e == d.entries[i]
                           IN  /\ e.kind = "nostat" => ~Reports(Res(p), e)
                               /\ e.kind = "socket" /\ WholeForm(e.name) =>
                                      \E k \in DOMAIN Res(p) : Res(p)[k] = InstanceOf(e)

\* C23, its case: the status check of the first candidate failed and the
\* socket listed after it was returned, alone
C23_Witness ==
    \E p \in Procs :
        /\ Done(p) /\ req[p].op = "discover"
        /\ req[p].dir.exists /\ req[p].dir.readable
        /\ Len(req[p].dir.entries) = 2
        /\ req[p].dir.entries[1] = Entry(SockName(<<"1">>), "nostat")
        /\ req[p].dir.entries[2] = Entry(SockName(<<"1", "2">>), "socket")
        /\ Res(p) = <<InstanceOf(req[p].dir.entries[2])>>


\* the column the cursor call is to receive: the argument when it is given,
\* the default d when it is omitted
PassThrough(opt, d) == IF opt = None THEN d ELSE opt[1]

\* C24: the defaults 1 and 999 are applied only when the column argument is
\* omitted; a column (an endColumn) that is given, 0 included, reaches the
\* cursor call unchanged as (line, column) (as (endLine, endColumn)).
C24_ColumnPassThrough ==
    \A p \in Procs :
        IsNavigate(p) /\ Attached(p) /\ req[p].line # None =>
            /\ Len(Log(p)) >= 3 =>
                   IsCall(Log(p)[3], "cursor",
                          <<req[p].line[1], PassThrough(req[p].column, 1)>>)
            /\ Len(Log(p)) >= 5 =>
                   IsCall(Log(p)[5], "cursor",
                          <<req[p].endLine[1], PassThrough(req[p].endColumn, 999)>>)


\* C25: no remote call is issued on a connection after close has been invoked
\* on it, and no remote call of an operation is still pending once the
\* operation has invoked close or has returned, also when the fetch of one
\* buffer fails while the fetches of other buffers are in progress.
C25_NoUseAfterRelease ==
    \A p \in Procs :
        HasConn(p) =>
            /\ \A i \in DOMAIN Log(p) : ~Log(p)[i].afterClose
            /\ Closes(p) >= 1 \/ Done(p) => Pending(p) = 0


\* call p has been made
Started(p) == pc[p] # "idle"
\* a remote call of call p never completes
Hung(p) == pc[p] = "hung" \/ \E i \in DOMAIN fibers[p] : fibers[p][i] = "hung"
\* the remote calls of snapshot that precede the per-buffer fetches
SnapOrder ==
    <<"getcwd", "nvim_get_current_buf", "nvim_buf_get_name", "getpos", "nvim_list_bufs">>
\* call p has issued every remote call of its sequence at most once
OnceEach(p) ==
    CASE req[p].op = "snapshot" ->
           \A i \in DOMAIN Log(p) :
               IF i <= Len(SnapOrder)
               THEN Log(p)[i].method = SnapOrder[i]
               ELSE /\ Log(p)[i].method \in {"nvim_buf_get_name", "nvim_buf_is_loaded"}
                    /\ \A j \in DOMAIN Log(p) :
                           j > Len(SnapOrder) /\ j # i =>
                               \/ Log(p)[j].method # Log(p)[i].method
                               \/ Log(p)[j].args # Log(p)[i].args
      [] req[p].op = "navigate" ->
           /\ Len(Log(p)) <= Len(NavOrder)
           /\ \A i \in DOMAIN Log(p) : NavKind(Log(p)[i]) = NavOrder[i]
      [] req[p].op = "execute" -> Len(Log(p)) <= 1

\* C26: when attach, every remote call and every close complete, every
\* snapshot, navigate and execute call eventually returns a result; a call
\* issues each remote call of its sequence at most once and attaches at most
\* once; and when one of its remote calls never completes the call never
\* returns and never closes its connection.
C26_EventualCompletion ==
    /\ \A p \in Procs : Started(p) ~> ((Done(p) /\ result[p] # None) \/ Hung(p))
    /\ [](\A p \in Procs : HasConn(p) => OnceEach(p))
    /\ [](Len(conns) <= Cardinality({p \in Procs : Started(p)}))
    /\ [](\A p \in Procs : Hung(p) => ~Done(p) /\ (HasConn(p) => Closes(p) = 0))

====
